---- MODULE Spec2Model ----
(***************************************************************************)
(* DULMS notifications bot: the task registry (task_manager.py), the       *)
(* scrape endpoint that creates and dispatches a task (endpoints/          *)
(* scraper.py), one run of the scraper (services/scraper.py) and the       *)
(* webhook dispatch (utils/notifications.py).                              *)
(*                                                                         *)
(* The browser, the CAPTCHA solving service and the webhook are the        *)
(* environment: every call into them picks its answer from a small set.    *)
(* Optional values are sequences of length at most one: <<>> is None.      *)
(* Timestamps are left out of results and log entries.                     *)
(***************************************************************************)
EXTENDS Integers, Sequences, FiniteSets, TLC

\* ------------------------------------------------------------ settings.py
DEADLINE_THRESHOLD_DAYS == 3
MAX_LOGIN_RETRIES == 3
CAPTCHA_SOLVE_RETRIES == 3

\* ---------------------------------------------------------------- bounds
\* rows after the header on a listing page
MaxRows == 1

\* task identifiers: those generate_task_id returns are drawn from here
TaskIds == {"t1", "t2"}

\* callers of get_task_logs
Pollers == {"p1", "p2"}

\* ------------------------------------------------------------ schemas.py
PENDING == "pending"
RUNNING == "running"
COMPLETED == "completed"
ERROR == "error"
TaskStatus == {PENDING, RUNNING, COMPLETED, ERROR}

\* ------------------------------------------------------------- messages
\* a message is <<fixed text, interpolated detail>>
MsgEmpty == <<"", "">>
MsgLoginFailed == <<"Failed to login to DULMS", "">>
MsgSuccess == <<"Scraping completed successfully", "">>
\* the message without the fault's description
MsgScraperFailedNoCause(e) == <<"Scraper failed with error: ", "">>
MsgScraperFailed(e) == <<"Scraper failed with error: ", e>>
MsgAnErrorOccurred(e) == <<"An error occurred: ", e>>
MsgLogQueueNotFound == <<"Log queue not found", "">>

\* ----------------------------------------------------------- environment
\* discord_webhook of a request: None, or a URL
Webhooks == {<<>>, <<"url">>}
\* why initialize_driver raises: the driver file is missing, or Edge fails
InitCauses == {"driver_not_found", "edge_failed"}
InitOutcomes == {"ok"} \cup InitCauses
\* hours since midnight at which datetime.now() is read
TimesOfDay == {0, 12}
\* answers to the webhook POST
PostOutcomes == {"2xx", "non2xx", "transport_error"}
\* answers to driver.quit()
QuitOutcomes == {"ok", "fault"}
\* deadline cell of a row: unparseable, or a date this many days after today
Deadlines == {<<>>, <<3>>, <<5>>}

\* what the browser and the solver answer during one CAPTCHA iteration
Responses ==
    [ image : BOOLEAN,        \* get_captcha_image returns an image
      solution : BOOLEAN,     \* solve_captcha returns a non-empty text
      fault : {"none", "form", "check"},
                              \* a driver call raises: before the click, after it
      marker : BOOLEAN,       \* current_url contains LOGIN_SUCCESS_URL_PART
      shown : BOOLEAN,        \* lblMessage exists and is displayed
      captcha : BOOLEAN ]     \* its text contains "CAPTCHA"

\* text of the status cell of the rows the listing pages show
RowStatusCell == " Pending "

\* a row of a listing table
RowKinds ==
    { [cells |-> 5, fault |-> FALSE, deadline |-> <<>>, status |-> RowStatusCell],
      [cells |-> 6, fault |-> TRUE, deadline |-> <<>>, status |-> RowStatusCell] }
    \cup { [cells |-> 6, fault |-> FALSE, deadline |-> d, status |-> RowStatusCell] :
               d \in Deadlines }

RECURSIVE SeqsUpTo(_, _)
SeqsUpTo(S, n) ==
    IF n = 0 THEN {<<>>}
    ELSE LET shorter == SeqsUpTo(S, n - 1)
         IN shorter \cup { Append(s, x) : s \in { q \in shorter : Len(q) = n - 1 }, x \in S }

\* what a listing page answers: driver.get raises, the table never shows,
\* or the table with its rows after the header
Pages(n) ==
    { [load |-> "fault", rows |-> <<>>], [load |-> "timeout", rows |-> <<>>] }
    \cup { [load |-> "table", rows |-> r] : r \in SeqsUpTo(RowKinds, n) }

VARIABLES
    task_queues,      \* task_manager.task_queues: id -> queued log entries
    task_results,     \* task_manager.task_results: id -> result
    task_statuses,    \* task_manager.task_statuses: id -> TaskStatus
    dispatched,       \* id -> times start_scraper added run_scraper_task for it
    discord_webhook,  \* id -> the request's discord_webhook
    pc,               \* id -> position of the run
    driver,           \* id -> run_dulms_scraper's driver
    openOutcome,      \* id -> what initialize_driver answered, "none" before it
    result,           \* id -> run_dulms_scraper's result
    attempt,          \* id -> login_to_dulms's loop variable
    login_success,    \* id -> what login_to_dulms returned
    exc,              \* id -> the exception being propagated, "" when none
    statusHist,       \* id -> every value written to task_statuses[id], in order
    calls,            \* id -> calls made to the browser and the solver
    lastOutcome,      \* id -> how the last CAPTCHA iteration ended
    listingNavs,      \* id -> listing pages navigated, in order
    posts,            \* id -> webhook POSTs made, in order
    fresh,            \* identifiers generate_task_id has yet to return
    requests,         \* POST /scrape requests served
    resultHist,       \* id -> every value written to task_results[id], in order
    poll,             \* poller -> its get_task_logs call: position, arguments, logs
    drains,           \* poller -> its get_task_logs calls, in order
    drained,          \* entries taken off log queues, in the order taken
    logPuts,          \* id -> entries put on its log queue so far
    listing,          \* the listing page a scrape_* call is given, <<>> when none
    scraped,          \* what that call returned, <<>> before it returns
    credentials,      \* id -> the password and the CAPTCHA API key of the request
    given,            \* id -> the texts the run gave to the browser, to the
                      \*       solving service and to the server log
    info,             \* the GET /status request being served by get_task_info
    stream            \* the GET /logs request being served: event_generator's
                      \* position, locals and the events it has yielded

vars == <<task_queues, task_results, task_statuses, dispatched, discord_webhook,
          pc, driver, openOutcome, result, attempt, login_success, exc, statusHist, calls,
          lastOutcome, listingNavs, posts, fresh, requests, resultHist,
          poll, drains, drained, logPuts, listing, scraped, credentials, given,
          info, stream>>

\* what the runs of run_scraper_task and the pollers of get_task_logs leave alone
observerVars == <<listing, scraped, credentials, info, stream>>

pollVars == <<poll, drains, drained>>

registry == <<task_queues, task_results, task_statuses>>
loginVars == <<attempt, login_success, lastOutcome>>

\* the dict replaced by one that holds k alone
PutAlone(d, k, v) == [x \in {k} |-> v]

\* d[k] = v on a Python dict
Put(d, k, v) == [x \in DOMAIN d \cup {k} |-> IF x = k THEN v ELSE d[x]]

\* ------------------------------------------------------- task_manager.py
get_task_status(t) == IF t \in DOMAIN task_statuses THEN <<task_statuses[t]>> ELSE <<>>

get_task_result(t) == IF t \in DOMAIN task_results THEN <<task_results[t]>> ELSE <<>>

\* a poller outside get_task_logs
IdlePoll == [pc |-> "idle", task_id |-> "", clear |-> FALSE, logs |-> <<>>]

\* {} of Python
EmptyDict == [x \in {} |-> TRUE]

\* the secrets a scrape request carries
Passwords == {"pw1", "pw2"}
ApiKeys == {"key1", "key2"}
DefaultCredentials == [password |-> "pw1", captcha_api_key |-> "key1"]

\* what the solving service answered, as the server log shows it
SolverResponse == "solver_response"

\* every request carries the same secrets and no run has used them yet
NoSecretsUsed ==
    /\ credentials = [t \in TaskIds |-> DefaultCredentials]
    /\ given = [t \in TaskIds |-> [browser |-> {}, solver |-> {}, log |-> {}]]

\* no GET /status request has been made
IdleInfo == [pc |-> "idle", task_id |-> "", status |-> <<>>, response |-> <<>>]

\* no GET /logs request has been made
IdleStream == [pc |-> "idle", task_id |-> "", logs |-> <<>>, events |-> <<>>,
               connected |-> TRUE]

NoClients ==
    /\ info = IdleInfo
    /\ stream = IdleStream

\* no scrape_* call is being looked at on its own
NoListing ==
    /\ listing = <<>>
    /\ scraped = <<>>

\* the registry and the runs after import, with ids the identifiers uuid4 is
\* going to return
InitRun(ids) ==
    /\ task_queues = EmptyDict
    /\ task_results = EmptyDict
    /\ task_statuses = EmptyDict
    /\ dispatched = [t \in TaskIds |-> 0]
    /\ discord_webhook = [t \in TaskIds |-> <<>>]
    /\ pc = [t \in TaskIds |-> "idle"]
    /\ driver = [t \in TaskIds |-> "none"]
    /\ openOutcome = [t \in TaskIds |-> "none"]
    /\ result = [t \in TaskIds |-> <<>>]
    /\ attempt = [t \in TaskIds |-> 0]
    /\ login_success = [t \in TaskIds |-> <<>>]
    /\ exc = [t \in TaskIds |-> ""]
    /\ statusHist = [t \in TaskIds |-> <<>>]
    /\ calls = [t \in TaskIds |-> [open |-> 0, close |-> 0, loginNav |-> 0,
                                   solve |-> 0, submit |-> 0]]
    /\ lastOutcome = [t \in TaskIds |-> "none"]
    /\ listingNavs = [t \in TaskIds |-> <<>>]
    /\ posts = [t \in TaskIds |-> <<>>]
    /\ fresh = ids
    /\ requests = 0
    /\ resultHist = [t \in TaskIds |-> <<>>]
    /\ poll = [p \in Pollers |-> IdlePoll]
    /\ drains = [p \in Pollers |-> <<>>]
    /\ drained = <<>>
    /\ logPuts = [t \in TaskIds |-> 0]
    /\ NoClients

\* the state after import
InitFresh(ids) ==
    /\ InitRun(ids)
    /\ NoListing
    /\ NoSecretsUsed

\* one scrape request is going to be made
Init == InitFresh({"t1"})

\* generate_task_id returning an identifier it may return again
FreshAfterReuse(ids, t) == ids

\* generate_task_id: a uuid4 is returned once
FreshAfter(ids, t) == ids \ {t}

\* POST /scrape: create_scraper_task, then background_tasks.add_task
start_scraper(t) ==
    /\ t \in fresh
    /\ fresh' = FreshAfter(fresh, t)
    /\ requests' = requests + 1
    /\ \E w \in Webhooks : discord_webhook' = [discord_webhook EXCEPT ![t] = w]
    /\ task_queues' = Put(task_queues, t, <<>>)
    /\ task_statuses' = Put(task_statuses, t, PENDING)
    /\ statusHist' = [statusHist EXCEPT ![t] = Append(@, PENDING)]
    /\ dispatched' = [dispatched EXCEPT ![t] = @ + 1]
    /\ pc' = [pc EXCEPT ![t] = "queued"]
    /\ UNCHANGED <<task_results, driver, result, exc, calls, listingNavs, posts>>
    /\ UNCHANGED loginVars
    /\ UNCHANGED openOutcome
    /\ UNCHANGED <<pollVars, resultHist, logPuts>>
    /\ UNCHANGED observerVars
    /\ UNCHANGED given

\* run_scraper_task up to the call of run_dulms_scraper
RunBegin(t) ==
    /\ pc[t] = "queued"
    /\ IF t \in DOMAIN task_queues
       THEN /\ task_statuses' = Put(task_statuses, t, RUNNING)
            /\ statusHist' = [statusHist EXCEPT ![t] = Append(@, RUNNING)]
            /\ pc' = [pc EXCEPT ![t] = "rds_init"]
       ELSE /\ task_statuses' = Put(task_statuses, t, ERROR)
            /\ statusHist' = [statusHist EXCEPT ![t] = Append(@, ERROR)]
            /\ pc' = [pc EXCEPT ![t] = "no_queue"]
    /\ UNCHANGED <<task_queues, task_results, dispatched, discord_webhook, driver,
                   result, exc, calls, listingNavs, posts>>
    /\ UNCHANGED loginVars
    /\ UNCHANGED openOutcome
    /\ UNCHANGED <<pollVars, fresh, requests, resultHist, logPuts>>
    /\ UNCHANGED observerVars
    /\ UNCHANGED given

\* ------------------------------------------------------------ scraper.py
\* the result dictionary run_dulms_scraper starts from
InitialResult == [assignments |-> <<>>, quizzes |-> <<>>, success |-> FALSE,
                  message |-> MsgEmpty]

\* initialize_driver raises, or returns the driver
RdsInitDriver(t) ==
    /\ pc[t] = "rds_init"
    /\ result' = [result EXCEPT ![t] = <<InitialResult>>]
    /\ calls' = [calls EXCEPT ![t].open = @ + 1]
    /\ \E o \in InitOutcomes :
          /\ openOutcome' = [openOutcome EXCEPT ![t] = o]
          /\ IF o = "ok"
             THEN /\ driver' = [driver EXCEPT ![t] = "open"]
                  /\ pc' = [pc EXCEPT ![t] = "login_nav"]
                  /\ UNCHANGED exc
             ELSE /\ exc' = [exc EXCEPT ![t] = o]
                  /\ pc' = [pc EXCEPT ![t] = "rds_except"]
                  /\ UNCHANGED driver
    /\ UNCHANGED <<dispatched, discord_webhook, statusHist, listingNavs, posts>>
    /\ UNCHANGED registry
    /\ UNCHANGED loginVars
    /\ UNCHANGED <<pollVars, fresh, requests, resultHist, logPuts>>
    /\ UNCHANGED observerVars
    /\ UNCHANGED given

\* login_to_dulms: driver.get(LOGIN_URL) and the two credential fields; a
\* missing field or a failing navigation raises into the except clause
LoginNavigate(t) ==
    /\ pc[t] = "login_nav"
    /\ calls' = [calls EXCEPT ![t].loginNav = @ + 1]
    /\ \E o \in {"ok", "fault"} :
          IF o = "ok"
          THEN /\ attempt' = [attempt EXCEPT ![t] = 0]
               /\ pc' = [pc EXCEPT ![t] = "captcha"]
               /\ given' = [given EXCEPT ![t].browser = @ \cup {credentials[t].password}]
               /\ UNCHANGED login_success
          ELSE /\ login_success' = [login_success EXCEPT ![t] = <<FALSE>>]
               /\ pc' = [pc EXCEPT ![t] = "login_ret"]
               /\ UNCHANGED <<attempt, given>>
    /\ UNCHANGED <<dispatched, discord_webhook, driver, result, exc, statusHist,
                   lastOutcome, listingNavs, posts>>
    /\ UNCHANGED registry
    /\ UNCHANGED openOutcome
    /\ UNCHANGED <<pollVars, fresh, requests, resultHist, logPuts>>
    /\ UNCHANGED observerVars

\* how one iteration of the CAPTCHA loop ends, in the order the code tests
IterationOutcome(r) ==
    IF ~r.image THEN "no_image"
    ELSE IF ~r.solution THEN "solve_failed"
    ELSE IF r.fault = "form" THEN "form_fault"
    ELSE IF r.fault = "check" THEN "check_fault"
    ELSE IF r.marker THEN "success"
    ELSE IF r.shown /\ r.captcha THEN "captcha_msg"
    ELSE IF r.shown THEN "other_msg"
    ELSE "no_msg"

\* solve_captcha was called in an iteration that ended this way
SolveCalled(o) == o # "no_image"

\* the login button clicked in every iteration
SubmittedAlways(o) == TRUE

\* the login button was clicked in an iteration that ended this way
Submitted(o) == o \in {"check_fault", "success", "captcha_msg", "other_msg", "no_msg"}

\* what the loop does after an iteration that ended this way
LoopControl(o) ==
    CASE o \in {"no_image", "solve_failed"} -> "continue"
      [] o \in {"form_fault", "check_fault"} -> "raise"
      [] o = "success" -> "return_true"
      [] o = "captcha_msg" -> "continue"
      [] o = "other_msg" -> "break"
      [] o = "no_msg" -> "continue"

\* the loop bounded by the product of the two retry settings
LoopHasNextWrongBound(a) == a <= MAX_LOGIN_RETRIES * CAPTCHA_SOLVE_RETRIES

\* for attempt in range(settings.CAPTCHA_SOLVE_RETRIES)
LoopHasNext(a) == a < CAPTCHA_SOLVE_RETRIES

\* one iteration of the CAPTCHA loop of login_to_dulms
CaptchaAttempt(t) ==
    /\ pc[t] = "captcha"
    /\ LoopHasNext(attempt[t])
    /\ \E r \in Responses :
          LET o == IterationOutcome(r)
              c == LoopControl(o)
          IN /\ calls' = [calls EXCEPT
                    ![t].solve = IF SolveCalled(o) THEN @ + 1 ELSE @,
                    ![t].submit = IF Submitted(o) THEN @ + 1 ELSE @]
             /\ lastOutcome' = [lastOutcome EXCEPT ![t] = o]
             /\ given' = [given EXCEPT
                    ![t].solver = IF SolveCalled(o)
                                  THEN @ \cup {credentials[t].captcha_api_key} ELSE @,
                    ![t].log = IF SolveCalled(o) THEN @ \cup {SolverResponse} ELSE @]
             /\ IF c = "continue"
                THEN /\ attempt' = [attempt EXCEPT ![t] = @ + 1]
                     /\ UNCHANGED <<login_success, pc>>
                ELSE /\ login_success' = [login_success EXCEPT ![t] = <<c = "return_true">>]
                     /\ pc' = [pc EXCEPT ![t] = "login_ret"]
                     /\ UNCHANGED attempt
    /\ UNCHANGED <<dispatched, discord_webhook, driver, result, exc, statusHist,
                   listingNavs, posts>>
    /\ UNCHANGED registry
    /\ UNCHANGED openOutcome
    /\ UNCHANGED <<pollVars, fresh, requests, resultHist, logPuts>>
    /\ UNCHANGED observerVars

\* the loop ran out: "Failed to login after multiple attempts"
CaptchaExhausted(t) ==
    /\ pc[t] = "captcha"
    /\ ~LoopHasNext(attempt[t])
    /\ login_success' = [login_success EXCEPT ![t] = <<FALSE>>]
    /\ pc' = [pc EXCEPT ![t] = "login_ret"]
    /\ UNCHANGED <<dispatched, discord_webhook, driver, result, exc, statusHist,
                   calls, attempt, lastOutcome, listingNavs, posts>>
    /\ UNCHANGED registry
    /\ UNCHANGED openOutcome
    /\ UNCHANGED <<pollVars, fresh, requests, resultHist, logPuts>>
    /\ UNCHANGED observerVars
    /\ UNCHANGED given

\* run_dulms_scraper going on to the listings whatever login_to_dulms returned
RdsAfterLoginIgnoresFailure(t) ==
    /\ pc[t] = "login_ret"
    /\ pc' = [pc EXCEPT ![t] = "scrape_a"]
    /\ UNCHANGED <<dispatched, discord_webhook, driver, result, exc, statusHist, calls,
                   listingNavs, posts>>
    /\ UNCHANGED registry
    /\ UNCHANGED loginVars
    /\ UNCHANGED openOutcome
    /\ UNCHANGED <<pollVars, fresh, requests, resultHist, logPuts>>
    /\ UNCHANGED observerVars
    /\ UNCHANGED given

\* run_dulms_scraper after login_to_dulms returned
RdsAfterLogin(t) ==
    /\ pc[t] = "login_ret"
    /\ IF login_success[t] = <<TRUE>>
       THEN /\ pc' = [pc EXCEPT ![t] = "scrape_a"]
            /\ UNCHANGED result
       ELSE /\ result' = [result EXCEPT ![t][1].message = MsgLoginFailed]
            /\ pc' = [pc EXCEPT ![t] = "finally"]
    /\ UNCHANGED <<dispatched, discord_webhook, driver, exc, statusHist, calls,
                   listingNavs, posts>>
    /\ UNCHANGED registry
    /\ UNCHANGED loginVars
    /\ UNCHANGED openOutcome
    /\ UNCHANGED <<pollVars, fresh, requests, resultHist, logPuts>>
    /\ UNCHANGED observerVars
    /\ UNCHANGED given

\* (deadline - now).days: the deadline is midnight d days after today and now
\* is tod hours into today; timedelta.days is the floor of the difference
DaysRemaining(d, tod) == (24 * d - tod) \div 24

\* str.strip() on the cell texts that occur
Strip(text) ==
    CASE text = " Pending " -> "Pending"
      [] text = " Submitted " -> "Submitted"
      [] OTHER -> text

\* the row loop with the try around the loop instead of inside it: a row that
\* raises ends the loop
RECURSIVE ScrapeRowsAbort(_, _, _)
ScrapeRowsAbort(rows, i, tod) ==
    IF i > Len(rows) THEN <<>>
    ELSE LET row == rows[i]
             rest == ScrapeRowsAbort(rows, i + 1, tod)
         IN IF row.cells < 6 THEN rest
            ELSE IF row.fault THEN <<>>
            ELSE <<[id |-> i,
                    days_remaining |->
                        IF row.deadline = <<>> THEN <<>>
                        ELSE <<(24 * row.deadline[1] - tod) \div 24>>,
                    status |-> row.status]>> \o rest

\* the body of the row loop of scrape_assignments / scrape_quizzes: rows from
\* the i-th on; a short row and a row that raises are skipped
RECURSIVE ScrapeRows(_, _, _)
ScrapeRows(rows, i, tod) ==
    IF i > Len(rows) THEN <<>>
    ELSE LET row == rows[i]
             rest == ScrapeRows(rows, i + 1, tod)
         IN IF row.cells < 6 \/ row.fault THEN rest
            ELSE <<[id |-> i,
                    days_remaining |->
                        IF row.deadline = <<>> THEN <<>>
                        ELSE <<DaysRemaining(row.deadline[1], tod)>>,
                    status |-> Strip(row.status)]>> \o rest

\* scrape_assignments / scrape_quizzes on what the page answers
scrape_listing(page, tod) ==
    IF page.load = "table" THEN ScrapeRows(page.rows, 1, tod) ELSE <<>>

\* result["assignments"] = scrape_assignments(driver)
RdsScrapeAssignments(t) ==
    /\ pc[t] = "scrape_a"
    /\ \E page \in Pages(MaxRows), tod \in TimesOfDay :
          /\ result' = [result EXCEPT ![t][1].assignments = scrape_listing(page, tod)]
          /\ listingNavs' = [listingNavs EXCEPT ![t] =
                 Append(@, [page |-> "assignments", load |-> page.load])]
    /\ pc' = [pc EXCEPT ![t] = "scrape_q"]
    /\ UNCHANGED <<dispatched, discord_webhook, driver, exc, statusHist, calls, posts>>
    /\ UNCHANGED registry
    /\ UNCHANGED loginVars
    /\ UNCHANGED openOutcome
    /\ UNCHANGED <<pollVars, fresh, requests, resultHist, logPuts>>
    /\ UNCHANGED observerVars
    /\ UNCHANGED given

\* result["quizzes"] = scrape_quizzes(driver), then success and message
RdsScrapeQuizzes(t) ==
    /\ pc[t] = "scrape_q"
    /\ \E page \in Pages(MaxRows), tod \in TimesOfDay :
          /\ result' = [result EXCEPT ![t][1].quizzes = scrape_listing(page, tod),
                                      ![t][1].success = TRUE,
                                      ![t][1].message = MsgSuccess]
          /\ listingNavs' = [listingNavs EXCEPT ![t] =
                 Append(@, [page |-> "quizzes", load |-> page.load])]
    /\ pc' = [pc EXCEPT ![t] = "notify"]
    /\ UNCHANGED <<dispatched, discord_webhook, driver, exc, statusHist, calls, posts>>
    /\ UNCHANGED registry
    /\ UNCHANGED loginVars
    /\ UNCHANGED openOutcome
    /\ UNCHANGED <<pollVars, fresh, requests, resultHist, logPuts>>
    /\ UNCHANGED observerVars
    /\ UNCHANGED given

\* -------------------------------------------------------- notifications.py
\* the list comprehensions of run_dulms_scraper: records with a deadline at
\* most deadline_threshold days away
\* the test with "<" for "<="
QualifiesStrict(rec) ==
    rec.days_remaining # <<>> /\ rec.days_remaining[1] < DEADLINE_THRESHOLD_DAYS

Qualifies(rec) ==
    rec.days_remaining # <<>> /\ rec.days_remaining[1] <= DEADLINE_THRESHOLD_DAYS

Upcoming(recs) == SelectSeq(recs, Qualifies)

\* "if upcoming_assignments or upcoming_quizzes:" under "if discord_webhook:"
\* without the inner test
ShouldNotifyAnyway(webhook, upcoming_assignments, upcoming_quizzes) ==
    webhook # <<>>

\* "if discord_webhook:" and, under it, "if upcoming_assignments or upcoming_quizzes:"
ShouldNotify(webhook, upcoming_assignments, upcoming_quizzes) ==
    /\ webhook # <<>>
    /\ (upcoming_assignments # <<>> \/ upcoming_quizzes # <<>>)

\* the embed colours
RED == 16711680
YELLOW == 16776960
GREEN == 65280

\* str.lower() on the status texts that occur
Lower(text) ==
    CASE text = "Submitted" -> "submitted"
      [] text = "SUBMITTED" -> "submitted"
      [] text = "Completed" -> "completed"
      [] text = "COMPLETED" -> "completed"
      [] text = "Pending" -> "pending"
      [] OTHER -> text

\* the colour with the days test made after the status test
CardColorDaysLast(rec, marker) ==
    LET first == RED
        second == IF Lower(rec.status) = marker THEN GREEN ELSE first
    IN IF rec.days_remaining[1] > 1 THEN YELLOW ELSE second

\* the three assignments to color, in the order of the code
CardColor(rec, marker) ==
    LET first == RED
        second == IF rec.days_remaining[1] > 1 THEN YELLOW ELSE first
    IN IF Lower(rec.status) = marker THEN GREEN ELSE second

\* one embed per record, in the order of the list
FormatEmbeds(kind, marker, recs) ==
    [i \in 1..Len(recs) |->
        [kind |-> kind, id |-> recs[i].id, days_remaining |-> recs[i].days_remaining[1],
         status |-> recs[i].status, color |-> CardColor(recs[i], marker)]]

format_discord_embeds_for_assignments(recs) == FormatEmbeds("assignment", "submitted", recs)

format_discord_embeds_for_quizzes(recs) == FormatEmbeds("quiz", "completed", recs)

\* the embeds with the quizzes' cards put first
JoinEmbedsQuizzesFirst(for_assignments, for_quizzes) == for_quizzes \o for_assignments

\* embeds = []; embeds.extend(assignments' cards); embeds.extend(quizzes' cards)
JoinEmbeds(for_assignments, for_quizzes) == for_assignments \o for_quizzes

\* send_discord_webhook whose except clause misses the transport error
send_discord_webhook_uncaught(url, o) ==
    IF url = <<>> THEN [returned |-> FALSE, raised |-> "", posted |-> FALSE]
    ELSE IF o = "2xx" THEN [returned |-> TRUE, raised |-> "", posted |-> TRUE]
    ELSE IF o = "non2xx" THEN [returned |-> FALSE, raised |-> "", posted |-> TRUE]
    ELSE [returned |-> FALSE, raised |-> "ConnectionError", posted |-> TRUE]

\* send_discord_webhook without response.raise_for_status()
send_discord_webhook_unchecked(url, o) ==
    IF url = <<>> THEN [returned |-> FALSE, raised |-> "", posted |-> FALSE]
    ELSE IF o \in {"2xx", "non2xx"} THEN [returned |-> TRUE, raised |-> "", posted |-> TRUE]
    ELSE [returned |-> FALSE, raised |-> "", posted |-> TRUE]

\* send_discord_webhook on the answer o of the POST: what it returns, the
\* exception that leaves it ("" when none), and whether it made the POST
send_discord_webhook(url, o) ==
    IF url = <<>> THEN [returned |-> FALSE, raised |-> "", posted |-> FALSE]
    ELSE IF o = "2xx" THEN [returned |-> TRUE, raised |-> "", posted |-> TRUE]
    ELSE [returned |-> FALSE, raised |-> "", posted |-> TRUE]

\* run_dulms_scraper from "if discord_webhook:" to "return result"
RdsNotify(t) ==
    /\ pc[t] = "notify"
    /\ LET upcoming_assignments == Upcoming(result[t][1].assignments)
           upcoming_quizzes == Upcoming(result[t][1].quizzes)
           embeds == JoinEmbeds(format_discord_embeds_for_assignments(upcoming_assignments),
                                format_discord_embeds_for_quizzes(upcoming_quizzes))
       IN IF ShouldNotify(discord_webhook[t], upcoming_assignments, upcoming_quizzes)
          THEN \E o \in PostOutcomes :
                  LET sent == send_discord_webhook(discord_webhook[t], o)
                  IN /\ posts' = [posts EXCEPT ![t] =
                            IF sent.posted
                            THEN Append(@, [embeds |-> embeds, outcome |-> o,
                                            returned |-> sent.returned,
                                            raised |-> sent.raised])
                            ELSE @]
                     /\ IF sent.raised = ""
                        THEN /\ pc' = [pc EXCEPT ![t] = "finally"]
                             /\ UNCHANGED exc
                        ELSE /\ pc' = [pc EXCEPT ![t] = "rds_except"]
                             /\ exc' = [exc EXCEPT ![t] = sent.raised]
          ELSE /\ pc' = [pc EXCEPT ![t] = "finally"]
               /\ UNCHANGED <<posts, exc>>
    /\ UNCHANGED <<dispatched, discord_webhook, driver, result, statusHist, calls,
                   listingNavs>>
    /\ UNCHANGED registry
    /\ UNCHANGED loginVars
    /\ UNCHANGED openOutcome
    /\ UNCHANGED <<pollVars, fresh, requests, resultHist, logPuts>>
    /\ UNCHANGED observerVars
    /\ UNCHANGED given

\* ------------------------------------------------------------ scraper.py
\* the except clause writing the password of the run into the message
RdsExceptLeaks(t) ==
    /\ pc[t] = "rds_except"
    /\ result' = [result EXCEPT ![t][1].success = FALSE,
                                ![t][1].message = MsgScraperFailed(credentials[t].password)]
    /\ exc' = [exc EXCEPT ![t] = ""]
    /\ pc' = [pc EXCEPT ![t] = "finally"]
    /\ UNCHANGED <<dispatched, discord_webhook, driver, statusHist, calls,
                   listingNavs, posts>>
    /\ UNCHANGED registry
    /\ UNCHANGED loginVars
    /\ UNCHANGED openOutcome
    /\ UNCHANGED <<pollVars, fresh, requests, resultHist, logPuts>>
    /\ UNCHANGED observerVars
    /\ UNCHANGED given

\* the except clause of run_dulms_scraper
RdsExcept(t) ==
    /\ pc[t] = "rds_except"
    /\ result' = [result EXCEPT ![t][1].success = FALSE,
                                ![t][1].message = MsgScraperFailed(exc[t])]
    /\ exc' = [exc EXCEPT ![t] = ""]
    /\ pc' = [pc EXCEPT ![t] = "finally"]
    /\ UNCHANGED <<dispatched, discord_webhook, driver, statusHist, calls,
                   listingNavs, posts>>
    /\ UNCHANGED registry
    /\ UNCHANGED loginVars
    /\ UNCHANGED openOutcome
    /\ UNCHANGED <<pollVars, fresh, requests, resultHist, logPuts>>
    /\ UNCHANGED observerVars
    /\ UNCHANGED given

\* a finally clause that never quits
DriverNeverQuit(d) == FALSE

\* "if driver:" of the finally clause
DriverTruthy(d) == d # "none"

\* the finally clause of run_dulms_scraper: driver.quit(), whose exception is
\* logged and dropped; then the return, or the exception, reaches the caller
RdsFinally(t) ==
    /\ pc[t] = "finally"
    /\ IF DriverTruthy(driver[t])
       THEN /\ calls' = [calls EXCEPT ![t].close = @ + 1]
            /\ \E q \in QuitOutcomes : driver' = [driver EXCEPT ![t] = "closed"]
       ELSE UNCHANGED <<calls, driver>>
    /\ pc' = [pc EXCEPT ![t] = IF exc[t] = "" THEN "store_result" ELSE "exc_status"]
    /\ UNCHANGED <<dispatched, discord_webhook, result, exc, statusHist, listingNavs, posts>>
    /\ UNCHANGED registry
    /\ UNCHANGED loginVars
    /\ UNCHANGED openOutcome
    /\ UNCHANGED <<pollVars, fresh, requests, resultHist, logPuts>>
    /\ UNCHANGED observerVars
    /\ UNCHANGED given

\* ------------------------------------------------------- task_manager.py
\* task_results[task_id] = result_data
StoreResult(t) ==
    /\ pc[t] = "store_result"
    /\ task_results' = Put(task_results, t, result[t][1])
    /\ resultHist' = [resultHist EXCEPT ![t] = Append(@, result[t][1])]
    /\ pc' = [pc EXCEPT ![t] = "set_status"]
    /\ UNCHANGED <<task_queues, task_statuses, dispatched, discord_webhook, driver,
                   result, exc, statusHist, calls, listingNavs, posts>>
    /\ UNCHANGED loginVars
    /\ UNCHANGED openOutcome
    /\ UNCHANGED <<pollVars, fresh, requests, logPuts>>
    /\ UNCHANGED observerVars
    /\ UNCHANGED given

\* result_data.get("success", False)
GetSuccess(res) == IF "success" \in DOMAIN res THEN res.success ELSE FALSE

\* the status written when the else branch is missing
StatusForNoElse(res) == IF GetSuccess(res) THEN COMPLETED ELSE RUNNING

\* the status written for result_data
StatusFor(res) == IF GetSuccess(res) THEN COMPLETED ELSE ERROR

\* task_statuses[task_id] = TaskStatus.COMPLETED, or TaskStatus.ERROR
SetStatus(t) ==
    /\ pc[t] = "set_status"
    /\ task_statuses' = Put(task_statuses, t, StatusFor(result[t][1]))
    /\ statusHist' = [statusHist EXCEPT ![t] = Append(@, StatusFor(result[t][1]))]
    /\ pc' = [pc EXCEPT ![t] = "put_log"]
    /\ UNCHANGED <<task_queues, task_results, dispatched, discord_webhook, driver,
                   result, exc, calls, listingNavs, posts>>
    /\ UNCHANGED loginVars
    /\ UNCHANGED openOutcome
    /\ UNCHANGED <<pollVars, fresh, requests, resultHist, logPuts>>
    /\ UNCHANGED observerVars
    /\ UNCHANGED given

\* the entry run_scraper_task puts on the log queue for this result
FinalLogEntry(res) ==
    IF GetSuccess(res)
    THEN [level |-> "INFO", message |-> <<"Scraping task completed successfully", "">>]
    ELSE [level |-> "ERROR", message |-> <<"Scraping task failed: ", res.message>>]

\* log_queue.put(...) raising, inside the try block, after the status write
PutLogRaises(t) ==
    /\ pc[t] = "put_log"
    /\ exc' = [exc EXCEPT ![t] = "queue_full"]
    /\ pc' = [pc EXCEPT ![t] = "exc_status"]
    /\ UNCHANGED <<dispatched, discord_webhook, driver, result, statusHist, calls,
                   listingNavs, posts>>
    /\ UNCHANGED registry
    /\ UNCHANGED loginVars
    /\ UNCHANGED openOutcome
    /\ UNCHANGED <<pollVars, fresh, requests, resultHist, logPuts>>
    /\ UNCHANGED observerVars
    /\ UNCHANGED given

\* log_queue.put(...) after the status write
PutLog(t) ==
    /\ pc[t] = "put_log"
    /\ task_queues' = Put(task_queues, t, Append(task_queues[t], FinalLogEntry(result[t][1])))
    /\ pc' = [pc EXCEPT ![t] = "done"]
    /\ UNCHANGED <<task_results, task_statuses, dispatched, discord_webhook, driver,
                   result, exc, statusHist, calls, listingNavs, posts>>
    /\ UNCHANGED loginVars
    /\ UNCHANGED openOutcome
    /\ UNCHANGED <<pollVars, fresh, requests, resultHist>>
    /\ logPuts' = [logPuts EXCEPT ![t] = @ + 1]
    /\ UNCHANGED observerVars
    /\ UNCHANGED given

Next ==
    \E t \in TaskIds :
        \/ start_scraper(t)
        \/ RunBegin(t)
        \/ RdsInitDriver(t)
        \/ LoginNavigate(t)
        \/ CaptchaAttempt(t)
        \/ CaptchaExhausted(t)
        \/ RdsAfterLogin(t)
        \/ RdsScrapeAssignments(t)
        \/ RdsScrapeQuizzes(t)
        \/ RdsNotify(t)
        \/ RdsExcept(t)
        \/ RdsFinally(t)
        \/ StoreResult(t)
        \/ SetStatus(t)
        \/ PutLog(t)

Spec == Init /\ [][Next]_vars

\* ------------------------------------------------- the exception handler
\* The statements of run_dulms_scraper that no except clause covers are its
\* own except clause (logger.error, traceback.print_exc): an exception raised
\* there leaves run_dulms_scraper, after the finally clause, and is the one
\* run_scraper_task catches.
RdsExceptFault(t) ==
    /\ pc[t] = "rds_except"
    /\ exc' = [exc EXCEPT ![t] = "handler_fault"]
    /\ pc' = [pc EXCEPT ![t] = "finally"]
    /\ UNCHANGED <<dispatched, discord_webhook, driver, result, statusHist, calls,
                   listingNavs, posts>>
    /\ UNCHANGED registry
    /\ UNCHANGED loginVars
    /\ UNCHANGED openOutcome
    /\ UNCHANGED <<pollVars, fresh, requests, resultHist, logPuts>>
    /\ UNCHANGED observerVars
    /\ UNCHANGED given

\* except Exception: task_statuses[task_id] = TaskStatus.ERROR
ExcSetStatus(t) ==
    /\ pc[t] = "exc_status"
    /\ task_statuses' = Put(task_statuses, t, ERROR)
    /\ statusHist' = [statusHist EXCEPT ![t] = Append(@, ERROR)]
    /\ pc' = [pc EXCEPT ![t] = "exc_result"]
    /\ UNCHANGED <<task_queues, task_results, dispatched, discord_webhook, driver,
                   result, exc, calls, listingNavs, posts>>
    /\ UNCHANGED loginVars
    /\ UNCHANGED openOutcome
    /\ UNCHANGED <<pollVars, fresh, requests, resultHist, logPuts>>
    /\ UNCHANGED observerVars
    /\ UNCHANGED given

\* task_results[task_id] = {"message": f"An error occurred: {str(e)}"}
ExcStoreResult(t) ==
    /\ pc[t] = "exc_result"
    /\ task_results' = Put(task_results, t, [message |-> MsgAnErrorOccurred(exc[t])])
    /\ resultHist' = [resultHist EXCEPT ![t] = Append(@, [message |-> MsgAnErrorOccurred(exc[t])])]
    /\ pc' = [pc EXCEPT ![t] = "exc_log"]
    /\ UNCHANGED <<task_queues, task_statuses, dispatched, discord_webhook, driver,
                   result, exc, statusHist, calls, listingNavs, posts>>
    /\ UNCHANGED loginVars
    /\ UNCHANGED openOutcome
    /\ UNCHANGED <<pollVars, fresh, requests, logPuts>>
    /\ UNCHANGED observerVars
    /\ UNCHANGED given

\* log_queue.put(...) of the exception handler
ExcPutLog(t) ==
    /\ pc[t] = "exc_log"
    /\ task_queues' = Put(task_queues, t,
           Append(task_queues[t],
                  [level |-> "ERROR",
                   message |-> <<"Scraping task failed with exception: ", exc[t]>>]))
    /\ pc' = [pc EXCEPT ![t] = "done"]
    /\ UNCHANGED <<task_results, task_statuses, dispatched, discord_webhook, driver,
                   result, exc, statusHist, calls, listingNavs, posts>>
    /\ UNCHANGED loginVars
    /\ UNCHANGED openOutcome
    /\ UNCHANGED <<pollVars, fresh, requests, resultHist>>
    /\ logPuts' = [logPuts EXCEPT ![t] = @ + 1]
    /\ UNCHANGED observerVars
    /\ UNCHANGED given

NextFault ==
    \/ Next
    \/ \E t \in TaskIds :
          \/ RdsExceptFault(t)
          \/ ExcSetStatus(t)
          \/ ExcStoreResult(t)
          \/ ExcPutLog(t)

\* Spec with the fault that reaches the exception handler of run_scraper_task
SpecFault == Init /\ [][NextFault]_vars

\* ------------------------------------------------------- fair scheduling
\* a step of the run of task t: the background thread that executes
\* run_scraper_task(t) is scheduled and every call it makes returns
RunStep(t) ==
    \/ RunBegin(t)
    \/ RdsInitDriver(t)
    \/ LoginNavigate(t)
    \/ CaptchaAttempt(t)
    \/ CaptchaExhausted(t)
    \/ RdsAfterLogin(t)
    \/ RdsScrapeAssignments(t)
    \/ RdsScrapeQuizzes(t)
    \/ RdsNotify(t)
    \/ RdsExcept(t)
    \/ RdsExceptFault(t)
    \/ RdsFinally(t)
    \/ StoreResult(t)
    \/ SetStatus(t)
    \/ PutLog(t)
    \/ ExcSetStatus(t)
    \/ ExcStoreResult(t)
    \/ ExcPutLog(t)

\* SpecFault where a run that can take a step eventually takes one
SpecLive == Init /\ [][NextFault]_vars /\ \A t \in TaskIds : WF_vars(RunStep(t))

\* ------------------------------------------- the missing-log-queue path
\* run_scraper_task called with an identifier create_scraper_task never
\* registered
RunDirect(t) ==
    /\ pc[t] = "idle"
    /\ t \notin fresh
    /\ t \notin DOMAIN task_queues
    /\ pc' = [pc EXCEPT ![t] = "queued"]
    /\ UNCHANGED <<dispatched, discord_webhook, driver, result, exc, statusHist, calls,
                   listingNavs, posts>>
    /\ UNCHANGED registry
    /\ UNCHANGED loginVars
    /\ UNCHANGED openOutcome
    /\ UNCHANGED <<pollVars, fresh, requests, resultHist, logPuts>>
    /\ UNCHANGED observerVars
    /\ UNCHANGED given

\* task_results[task_id] = {"message": "Log queue not found"}; return
NoQueueStoreResult(t) ==
    /\ pc[t] = "no_queue"
    /\ task_results' = Put(task_results, t, [message |-> MsgLogQueueNotFound])
    /\ resultHist' = [resultHist EXCEPT ![t] = Append(@, [message |-> MsgLogQueueNotFound])]
    /\ pc' = [pc EXCEPT ![t] = "done"]
    /\ UNCHANGED <<task_queues, task_statuses, dispatched, discord_webhook, driver,
                   result, exc, statusHist, calls, listingNavs, posts>>
    /\ UNCHANGED loginVars
    /\ UNCHANGED openOutcome
    /\ UNCHANGED <<pollVars, fresh, requests, logPuts>>
    /\ UNCHANGED observerVars
    /\ UNCHANGED given

\* runs of registered tasks, the exception handler included, beside runs
\* called with an unregistered identifier
NextDirect ==
    \/ NextFault
    \/ \E t \in TaskIds :
          \/ RunDirect(t)
          \/ NoQueueStoreResult(t)

SpecDirect == Init /\ [][NextDirect]_vars

\* ------------------------------------------- concurrent scrape requests
\* initialize_driver where the WebDriver executable is missing
RdsInitDriverMissing(t) ==
    /\ RdsInitDriver(t)
    /\ openOutcome'[t] = "driver_not_found"

\* the service deployed without the WebDriver executable: every run ends in
\* the except clause of run_dulms_scraper
NextMulti ==
    \E t \in TaskIds :
        \/ start_scraper(t)
        \/ RunBegin(t)
        \/ RdsInitDriverMissing(t)
        \/ RdsExcept(t)
        \/ RdsFinally(t)
        \/ StoreResult(t)
        \/ SetStatus(t)
        \/ PutLog(t)

\* as many scrape requests as there are identifiers, served concurrently
SpecMulti == InitFresh(TaskIds) /\ [][NextMulti]_vars

\* ------------------------------------------------------- the notification
\* most records the two scraped lists hold together
MaxRecs == 2

\* days_remaining and status of the records the notification is built from
RecordDays == {<<>>, <<1>>, <<2>>, <<3>>, <<4>>}
RecordStatuses == {"Pending", "Submitted", "COMPLETED"}
RecordKinds == [days_remaining : RecordDays, status : RecordStatuses]

\* the records scraped from rows of these kinds, numbered by row
RecordsOf(kinds) ==
    [i \in 1..Len(kinds) |->
        [id |-> i, days_remaining |-> kinds[i].days_remaining, status |-> kinds[i].status]]

\* run_dulms_scraper of task t1 at "if discord_webhook:": logged in at the
\* first attempt, both listings scraped, success and message set
InitNotify ==
    \E w \in Webhooks, kinds \in SeqsUpTo(RecordKinds, MaxRecs) :
      \E n \in 0..Len(kinds) :
        /\ task_queues = [t \in {"t1"} |-> <<>>]
        /\ task_results = EmptyDict
        /\ task_statuses = [t \in {"t1"} |-> RUNNING]
        /\ dispatched = [t \in TaskIds |-> IF t = "t1" THEN 1 ELSE 0]
        /\ discord_webhook = [t \in TaskIds |-> IF t = "t1" THEN w ELSE <<>>]
        /\ pc = [t \in TaskIds |-> IF t = "t1" THEN "notify" ELSE "idle"]
        /\ driver = [t \in TaskIds |-> IF t = "t1" THEN "open" ELSE "none"]
        /\ openOutcome = [t \in TaskIds |-> IF t = "t1" THEN "ok" ELSE "none"]
        /\ result = [t \in TaskIds |->
               IF t = "t1"
               THEN <<[assignments |-> RecordsOf(SubSeq(kinds, 1, n)),
                       quizzes |-> RecordsOf(SubSeq(kinds, n + 1, Len(kinds))),
                       success |-> TRUE,
                       message |-> MsgSuccess]>>
               ELSE <<>>]
        /\ attempt = [t \in TaskIds |-> 0]
        /\ login_success = [t \in TaskIds |-> IF t = "t1" THEN <<TRUE>> ELSE <<>>]
        /\ exc = [t \in TaskIds |-> ""]
        /\ statusHist = [t \in TaskIds |-> IF t = "t1" THEN <<PENDING, RUNNING>> ELSE <<>>]
        /\ calls = [t \in TaskIds |->
               IF t = "t1"
               THEN [open |-> 1, close |-> 0, loginNav |-> 1, solve |-> 1, submit |-> 1]
               ELSE [open |-> 0, close |-> 0, loginNav |-> 0, solve |-> 0, submit |-> 0]]
        /\ lastOutcome = [t \in TaskIds |-> IF t = "t1" THEN "success" ELSE "none"]
        /\ listingNavs = [t \in TaskIds |->
               IF t = "t1"
               THEN <<[page |-> "assignments", load |-> "table"],
                      [page |-> "quizzes", load |-> "table"]>>
               ELSE <<>>]
        /\ posts = [t \in TaskIds |-> <<>>]
        /\ fresh = {}
        /\ requests = 1
        /\ resultHist = [t \in TaskIds |-> <<>>]
        /\ poll = [p \in Pollers |-> IdlePoll]
        /\ drains = [p \in Pollers |-> <<>>]
        /\ drained = <<>>
        /\ logPuts = [t \in TaskIds |-> 0]
        /\ NoListing
        /\ NoClients
        /\ credentials = [t \in TaskIds |-> DefaultCredentials]
        /\ given = [t \in TaskIds |->
               IF t = "t1"
               THEN [browser |-> {DefaultCredentials.password},
                     solver |-> {DefaultCredentials.captcha_api_key},
                     log |-> {SolverResponse}]
               ELSE [browser |-> {}, solver |-> {}, log |-> {}]]

\* the run from the notification to its end
NextNotify ==
    \E t \in TaskIds :
        \/ RdsNotify(t)
        \/ RdsFinally(t)
        \/ StoreResult(t)
        \/ SetStatus(t)
        \/ PutLog(t)

SpecNotify == InitNotify /\ [][NextNotify]_vars

\* ------------------------------------------------- one listing on its own
\* most rows after the header of the listing looked at on its own
MaxListRows == 3

\* the rows of that listing: those of RowKinds and a row whose deadline is today
ListingRowKinds ==
    RowKinds \cup {[cells |-> 6, fault |-> FALSE, deadline |-> <<0>>, status |-> RowStatusCell]}

\* what the listing page answers
ListingPages ==
    { [load |-> "fault", rows |-> <<>>], [load |-> "timeout", rows |-> <<>>] }
    \cup { [load |-> "table", rows |-> r] : r \in SeqsUpTo(ListingRowKinds, MaxListRows) }

\* a scrape_assignments / scrape_quizzes call about to be made on a page, at
\* some time of day
InitRows ==
    /\ InitRun({})
    /\ \E page \in ListingPages, tod \in TimesOfDay :
          listing = <<[page |-> page, tod |-> tod]>>
    /\ scraped = <<>>
    /\ NoSecretsUsed

\* scrape_assignments(driver) / scrape_quizzes(driver) on that page
ScrapeListing ==
    /\ listing # <<>>
    /\ scraped = <<>>
    /\ scraped' = <<scrape_listing(listing[1].page, listing[1].tod)>>
    /\ UNCHANGED <<task_queues, task_results, task_statuses, dispatched, discord_webhook,
                   pc, driver, openOutcome, result, attempt, login_success, exc,
                   statusHist, calls, lastOutcome, listingNavs, posts, fresh, requests,
                   resultHist, poll, drains, drained, logPuts, listing, credentials, given,
                   info, stream>>

NextRows == ScrapeListing

SpecRows == InitRows /\ [][NextRows]_vars

\* ------------------------------------------------------------ the secrets
\* one scrape request, carrying any of the passwords and of the API keys
InitSecrets ==
    /\ InitRun({"t1"})
    /\ NoListing
    /\ \E pw \in Passwords, key \in ApiKeys :
          credentials = [t \in TaskIds |->
              IF t = "t1" THEN [password |-> pw, captcha_api_key |-> key]
              ELSE DefaultCredentials]
    /\ given = [t \in TaskIds |-> [browser |-> {}, solver |-> {}, log |-> {}]]

SpecSecrets == InitSecrets /\ [][NextFault]_vars

\* ------------------------------------------- task_manager.get_task_logs
\* most get_task_logs calls the pollers make together
MaxDrains == 2
\* most entries put on one log queue
MaxLogs == 2

\* log_queue.put(entry) by the holder of the queue of task t: the entry
\* carries the time of the put, here the number of the put
LogPut(t) ==
    /\ t \in DOMAIN task_queues
    /\ logPuts[t] < MaxLogs
    /\ task_queues' = Put(task_queues, t,
           Append(task_queues[t], [timestamp |-> logPuts[t] + 1, level |-> "INFO"]))
    /\ logPuts' = [logPuts EXCEPT ![t] = @ + 1]
    /\ drains' = [p \in Pollers |->
           IF drains[p] # <<>> /\ drains[p][Len(drains[p])].task_id = t
           THEN [drains[p] EXCEPT ![Len(drains[p])].quiet = FALSE]
           ELSE drains[p]]
    /\ UNCHANGED <<task_results, task_statuses, dispatched, discord_webhook, pc, driver,
                   openOutcome, result, attempt, login_success, exc, statusHist, calls,
                   lastOutcome, listingNavs, posts, fresh, requests, resultHist,
                   poll, drained>>
    /\ UNCHANGED observerVars
    /\ UNCHANGED given

\* the queue after a read that leaves the entry on it
QueueAfterPeek(q) == q

\* the queue after get_nowait() took its first entry
QueueAfterGet(q) == Tail(q)

\* logs with the entry dropped
LogsAppendDropped(logs, entry) == logs

\* logs with the entry put in front
LogsAppendFront(logs, entry) == <<entry>> \o logs

\* logs.append(entry)
LogsAppend(logs, entry) == Append(logs, entry)

\* "return logs", and "return []" for an unknown task: the call of poller p
\* ends and hands back logs
LogsReturn(p, logs) ==
    /\ poll' = [poll EXCEPT ![p] = IdlePoll]
    /\ drains' = [drains EXCEPT ![p][Len(drains[p])].returned = logs,
                                ![p][Len(drains[p])].done = TRUE]

\* get_task_logs(task_id, clear) up to the while loop: the lookup of the
\* queue, "return []" when there is none, logs = []
get_task_logs(p) ==
    /\ poll[p].pc = "idle"
    /\ Len(drains["p1"]) + Len(drains["p2"]) < MaxDrains
    /\ \E t \in TaskIds, clear \in BOOLEAN :
          IF t \notin DOMAIN task_queues
          THEN /\ drains' = [drains EXCEPT ![p] =
                      Append(@, [task_id |-> t,
                                 start |-> <<>>, returned |-> <<>>,
                                 done |-> TRUE, quiet |-> TRUE])]
               /\ UNCHANGED poll
          ELSE /\ drains' = [drains EXCEPT ![p] =
                      Append(@, [task_id |-> t,
                                 start |-> task_queues[t], returned |-> <<>>,
                                 done |-> FALSE, quiet |-> TRUE])]
               /\ poll' = [poll EXCEPT ![p] =
                      [pc |-> "empty", task_id |-> t, clear |-> clear, logs |-> <<>>]]
    /\ UNCHANGED <<task_queues, task_results, task_statuses, dispatched, discord_webhook,
                   pc, driver, openOutcome, result, attempt, login_success, exc,
                   statusHist, calls, lastOutcome, listingNavs, posts, fresh, requests,
                   resultHist, drained, logPuts>>
    /\ UNCHANGED observerVars
    /\ UNCHANGED given

\* "while not log_queue.empty():" of poller p
LogsEmpty(p) ==
    /\ poll[p].pc = "empty"
    /\ IF task_queues[poll[p].task_id] = <<>>
       THEN LogsReturn(p, poll[p].logs)
       ELSE /\ poll' = [poll EXCEPT ![p].pc = "get"]
            /\ UNCHANGED drains
    /\ UNCHANGED <<task_queues, task_results, task_statuses, dispatched, discord_webhook,
                   pc, driver, openOutcome, result, attempt, login_success, exc,
                   statusHist, calls, lastOutcome, listingNavs, posts, fresh, requests,
                   resultHist, drained, logPuts>>
    /\ UNCHANGED observerVars
    /\ UNCHANGED given

\* "logs.append(log_queue.get_nowait())" of poller p: the first entry leaves
\* the queue, or queue.Empty is raised and caught and the call returns
LogsGetNowait(p) ==
    /\ poll[p].pc = "get"
    /\ LET t == poll[p].task_id
           q == task_queues[t]
       IN IF q # <<>>
          THEN /\ task_queues' = Put(task_queues, t, QueueAfterGet(q))
               /\ poll' = [poll EXCEPT ![p].logs = LogsAppend(@, Head(q)),
                                       ![p].pc = "empty"]
               /\ drained' = Append(drained, [task_id |-> t, entry |-> Head(q), by |-> p])
               /\ drains' = [o \in Pollers |->
                      IF o # p /\ drains[o] # <<>> /\ drains[o][Len(drains[o])].task_id = t
                      THEN [drains[o] EXCEPT ![Len(drains[o])].quiet = FALSE]
                      ELSE drains[o]]
          ELSE /\ LogsReturn(p, poll[p].logs)
               /\ UNCHANGED <<task_queues, drained>>
    /\ UNCHANGED <<task_results, task_statuses, dispatched, discord_webhook,
                   pc, driver, openOutcome, result, attempt, login_success, exc,
                   statusHist, calls, lastOutcome, listingNavs, posts, fresh, requests,
                   resultHist, logPuts>>
    /\ UNCHANGED observerVars
    /\ UNCHANGED given

\* tasks being created, their log queues written and drained by two pollers
NextLogs ==
    \/ \E t \in TaskIds :
          \/ start_scraper(t)
          \/ LogPut(t)
    \/ \E p \in Pollers :
          \/ get_task_logs(p)
          \/ LogsEmpty(p)
          \/ LogsGetNowait(p)

SpecLogs == Init /\ [][NextLogs]_vars

\* ------------------------------------------------- endpoints.get_task_info
\* result_data.get("message", default)
GetMessage(result_data) ==
    IF "message" \in DOMAIN result_data THEN result_data.message ELSE <<"", "">>

\* the response of get_task_info from the status and the result it read
InfoResponse(t, status, result_data) ==
    [code |-> 200, task_id |-> t, status |-> status,
     lists |-> status = COMPLETED /\ result_data # <<>>,
     message |-> IF status = COMPLETED /\ result_data # <<>>
                 THEN <<GetMessage(result_data[1])>> ELSE <<>>,
     error |-> IF status = ERROR /\ result_data # <<>>
               THEN <<GetMessage(result_data[1])>> ELSE <<>>]

\* HTTPException(status_code=404)
NotFound(t) ==
    [code |-> 404, task_id |-> t, status |-> "", lists |-> FALSE,
     message |-> <<>>, error |-> <<>>]

\* get_task_info(task_id) up to its branch on the status: the status read,
\* the 404 for an unknown task, the response of a task neither completed nor
\* failed
get_task_info(t) ==
    /\ info.pc \in {"idle", "done"}
    /\ LET status == get_task_status(t)
       IN info' = IF status = <<>>
                  THEN [pc |-> "done", task_id |-> t, status |-> <<>>,
                        response |-> <<NotFound(t)>>]
                  ELSE IF status[1] \in {COMPLETED, ERROR}
                  THEN [pc |-> "result", task_id |-> t, status |-> status,
                        response |-> <<>>]
                  ELSE [pc |-> "done", task_id |-> t, status |-> status,
                        response |-> <<InfoResponse(t, status[1], <<>>)>>]
    /\ UNCHANGED <<task_queues, task_results, task_statuses, dispatched, discord_webhook,
                   pc, driver, openOutcome, result, attempt, login_success, exc,
                   statusHist, calls, lastOutcome, listingNavs, posts, fresh, requests,
                   resultHist, poll, drains, drained, logPuts, listing, scraped,
                   credentials, given, stream>>

\* result_data = get_task_result(task_id) of either branch, and the return
InfoReadResult ==
    /\ info.pc = "result"
    /\ info' = [info EXCEPT
           !.pc = "done",
           !.response = <<InfoResponse(info.task_id, info.status[1],
                                       get_task_result(info.task_id))>>]
    /\ UNCHANGED <<task_queues, task_results, task_statuses, dispatched, discord_webhook,
                   pc, driver, openOutcome, result, attempt, login_success, exc,
                   statusHist, calls, lastOutcome, listingNavs, posts, fresh, requests,
                   resultHist, poll, drains, drained, logPuts, listing, scraped,
                   credentials, given, stream>>

\* a run, the exception handler included, polled through GET /status
NextInfo ==
    \/ NextFault
    \/ \E t \in TaskIds : get_task_info(t)
    \/ InfoReadResult

SpecInfo == Init /\ [][NextInfo]_vars

\* ----------------------------------------------- endpoints.event_generator
\* everything but the log queues and the GET /logs request
StreamFrame ==
    <<task_results, task_statuses, dispatched, discord_webhook,
      pc, driver, openOutcome, result, attempt, login_success, exc,
      statusHist, calls, lastOutcome, listingNavs, posts, fresh, requests,
      resultHist, poll, drains, drained, logPuts, listing, scraped,
      credentials, given, info>>

\* stream_task_logs(request, task_id): 404 for an unknown task, else the
\* response that iterates event_generator
stream_task_logs(t) ==
    /\ stream.pc = "idle"
    /\ stream' = [stream EXCEPT
           !.pc = IF get_task_status(t) = <<>> THEN "not_found" ELSE "check",
           !.task_id = t]
    /\ UNCHANGED <<task_queues, StreamFrame>>

\* "if await request.is_disconnected():" with the client still there, then
\* get_task_logs(task_id) up to its while loop
StreamConnected ==
    /\ stream.pc = "check"
    /\ stream' = [stream EXCEPT
           !.pc = IF stream.task_id \in DOMAIN task_queues THEN "drain" ELSE "yield",
           !.logs = <<>>]
    /\ UNCHANGED <<task_queues, StreamFrame>>

\* "if await request.is_disconnected():" with the client gone: break
StreamDisconnected ==
    /\ stream.pc = "check"
    /\ stream' = [stream EXCEPT !.pc = "closed", !.connected = FALSE]
    /\ UNCHANGED <<task_queues, StreamFrame>>

\* one turn of the while loop of get_task_logs, called by event_generator:
\* the first entry leaves the queue, or the queue is empty and logs is
\* returned
StreamDrain ==
    /\ stream.pc = "drain"
    /\ LET t == stream.task_id
           q == task_queues[t]
       IN IF q # <<>>
          THEN /\ task_queues' = Put(task_queues, t, QueueAfterGet(q))
               /\ stream' = [stream EXCEPT !.logs = LogsAppend(@, Head(q))]
          ELSE /\ stream' = [stream EXCEPT !.pc = "yield"]
               /\ UNCHANGED task_queues
    /\ UNCHANGED StreamFrame

\* yield {"event": "log", "data": log} for the next of logs
StreamYieldLog ==
    /\ stream.pc = "yield"
    /\ stream.logs # <<>>
    /\ stream' = [stream EXCEPT
           !.events = Append(@, [event |-> "log", data |-> Head(stream.logs)]),
           !.logs = Tail(@)]
    /\ UNCHANGED <<task_queues, StreamFrame>>

\* a result event after every status event
ResultEventAlways(status) == TRUE

\* "if status == TaskStatus.COMPLETED:" after the status event
ResultEventDue(status) == status = COMPLETED

\* status = get_task_status(task_id) once the logs are yielded: the status
\* event of a finished task, else the sleep and the next turn of the loop
StreamReadStatus ==
    /\ stream.pc = "yield"
    /\ stream.logs = <<>>
    /\ LET status == get_task_status(stream.task_id)
       IN stream' =
            IF status # <<>> /\ status[1] \in {COMPLETED, ERROR}
            THEN [stream EXCEPT
                     !.events = Append(@, [event |-> "status", data |-> status[1]]),
                     !.pc = IF ResultEventDue(status[1]) THEN "result" ELSE "closed"]
            ELSE [stream EXCEPT !.pc = "check"]
    /\ UNCHANGED <<task_queues, StreamFrame>>

\* result = get_task_result(task_id), the result event if there is a result,
\* break
StreamReadResult ==
    /\ stream.pc = "result"
    /\ LET res == get_task_result(stream.task_id)
       IN stream' = [stream EXCEPT
              !.events = IF res # <<>>
                         THEN Append(@, [event |-> "result", data |-> res[1]])
                         ELSE @,
              !.pc = "closed"]
    /\ UNCHANGED <<task_queues, StreamFrame>>

\* a step of the response to GET /logs of a client that stays connected
StreamStep ==
    \/ StreamConnected
    \/ StreamDrain
    \/ StreamYieldLog
    \/ StreamReadStatus
    \/ StreamReadResult

\* a run, the exception handler included, streamed through GET /logs
NextStream ==
    \/ NextFault
    \/ \E t \in TaskIds : stream_task_logs(t)
    \/ StreamDisconnected
    \/ StreamStep

SpecStream == Init /\ [][NextStream]_vars

\* an iteration of the CAPTCHA loop that ends it: the login succeeds, the
\* page shows another message, or a driver call raises
CaptchaAttemptLast(t) ==
    /\ CaptchaAttempt(t)
    /\ pc'[t] # "captcha"

\* the assignments page shows its table and no record comes of it
RdsScrapeAssignmentsNone(t) ==
    /\ RdsScrapeAssignments(t)
    /\ listingNavs'[t][Len(listingNavs'[t])].load = "table"
    /\ result'[t][1].assignments = <<>>

\* the quizzes page shows its table and no record comes of it
RdsScrapeQuizzesNone(t) ==
    /\ RdsScrapeQuizzes(t)
    /\ listingNavs'[t][Len(listingNavs'[t])].load = "table"
    /\ result'[t][1].quizzes = <<>>

\* a step of the run of task t on a site whose listings are empty and whose
\* login is settled by the first CAPTCHA
QuietRunStep(t) ==
    \/ RunBegin(t)
    \/ RdsInitDriver(t)
    \/ LoginNavigate(t)
    \/ CaptchaAttemptLast(t)
    \/ RdsAfterLogin(t)
    \/ RdsScrapeAssignmentsNone(t)
    \/ RdsScrapeQuizzesNone(t)
    \/ RdsNotify(t)
    \/ RdsExcept(t)
    \/ RdsExceptFault(t)
    \/ RdsFinally(t)
    \/ StoreResult(t)
    \/ SetStatus(t)
    \/ PutLog(t)
    \/ ExcSetStatus(t)
    \/ ExcStoreResult(t)
    \/ ExcPutLog(t)

\* such runs streamed through GET /logs
NextStreamQuiet ==
    \/ \E t \in TaskIds :
          \/ start_scraper(t)
          \/ QuietRunStep(t)
          \/ stream_task_logs(t)
    \/ StreamDisconnected
    \/ StreamStep

\* a run that can take a step eventually takes one, and so does the
\* generator while the client is connected
SpecStreamLive ==
    /\ Init
    /\ [][NextStreamQuiet]_vars
    /\ \A t \in TaskIds : WF_vars(QuietRunStep(t))
    /\ WF_vars(StreamStep)

\* ----------------------------------------------------------------- claims

Terminal(t) == t \in DOMAIN task_statuses /\ task_statuses[t] \in {COMPLETED, ERROR}

\* run_dulms_scraper has returned to, or raised into, run_scraper_task
Returned(t) == pc[t] \in {"store_result", "set_status", "put_log", "done",
                          "exc_status", "exc_result", "exc_log"}

OpenFailed(t) == openOutcome[t] \in InitCauses

IsPrefix(s, q) == Len(s) <= Len(q) /\ SubSeq(q, 1, Len(s)) = s

Last(s) == s[Len(s)]

\* C1: the values written to a task's status are Pending, then Running, then
\* exactly one of Completed or Error, and nothing after that; a finished run
\* has written all three; the exception handler included.
C1_StatusOrder ==
    \A t \in TaskIds :
        /\ \/ IsPrefix(statusHist[t], <<PENDING, RUNNING, COMPLETED>>)
           \/ IsPrefix(statusHist[t], <<PENDING, RUNNING, ERROR>>)
        /\ t \in DOMAIN task_statuses <=> statusHist[t] # <<>>
        /\ t \in DOMAIN task_statuses => task_statuses[t] = Last(statusHist[t])
        /\ pc[t] = "done" => Len(statusHist[t]) = 3

\* a run that ended in the exception handler of run_scraper_task
C1_Witness ==
    \E t \in TaskIds :
        /\ pc[t] = "done"
        /\ exc[t] # ""
        /\ statusHist[t] = <<PENDING, RUNNING, ERROR>>

\* C2: in every state get_task_result returns a result if and only if
\* get_task_status is Completed or Error.
C2_ResultIffTerminal ==
    \A t \in TaskIds :
        get_task_result(t) # <<>> <=> get_task_status(t) \in {<<COMPLETED>>, <<ERROR>>}

\* C3: a session that was opened is closed exactly once, before the status
\* becomes Completed or Error; a session that failed to open is never closed.
C3_SessionClosedOnce ==
    \A t \in TaskIds :
        /\ calls[t].close <= 1
        /\ openOutcome[t] # "ok" => calls[t].close = 0 /\ driver[t] = "none"
        /\ calls[t].close = 1 <=> driver[t] = "closed"
        /\ (Returned(t) \/ Terminal(t)) /\ openOutcome[t] = "ok" =>
               driver[t] = "closed" /\ calls[t].close = 1
        /\ Terminal(t) => Returned(t)

\* a login failure whose session was closed before Error was written
C3_Witness ==
    \E t \in TaskIds :
        /\ pc[t] = "done"
        /\ task_statuses[t] = ERROR
        /\ login_success[t] = <<FALSE>>
        /\ openOutcome[t] = "ok"
        /\ calls[t].close = 1

\* C4: the calls made to the CAPTCHA solving service within one task never
\* exceed MAX_LOGIN_RETRIES * CAPTCHA_SOLVE_RETRIES.
C4_SolveCallsBounded ==
    \A t \in TaskIds : calls[t].solve <= MAX_LOGIN_RETRIES * CAPTCHA_SOLVE_RETRIES

\* a login that used every iteration of the loop on a solve call and failed
C4_Witness ==
    \E t \in TaskIds :
        /\ login_success[t] = <<FALSE>>
        /\ attempt[t] = CAPTCHA_SOLVE_RETRIES
        /\ calls[t].solve = CAPTCHA_SOLVE_RETRIES

\* C5: a task ends with the login-failure message only after
\* MAX_LOGIN_RETRIES navigations to the login page.
C5_LoginFailureAfterAllOuterAttempts ==
    \A t \in TaskIds :
        t \in DOMAIN task_results /\ task_results[t].message = MsgLoginFailed =>
            calls[t].loginNav = MAX_LOGIN_RETRIES

\* C6: a task is in Error only if the session failed to open or the login
\* failed; after a successful login the run returns success = true and the
\* task ends in Completed, whatever the listings and the webhook answered.
C6_ErrorOnlyOnOpenOrLogin ==
    \A t \in TaskIds :
        /\ t \in DOMAIN task_statuses /\ task_statuses[t] = ERROR =>
               OpenFailed(t) \/ login_success[t] = <<FALSE>>
        /\ login_success[t] = <<TRUE>> /\ Returned(t) =>
               exc[t] = "" /\ result[t][1].success
        /\ login_success[t] = <<TRUE>> /\ pc[t] \in {"put_log", "done"} =>
               /\ task_statuses[t] = COMPLETED
               /\ GetSuccess(task_results[t])

\* Completed after a listing table that never showed and a webhook POST that
\* failed in transport
C6_Witness ==
    \E t \in TaskIds :
        /\ pc[t] = "done"
        /\ task_statuses[t] = COMPLETED
        /\ \E i \in DOMAIN listingNavs[t] : listingNavs[t][i].load = "timeout"
        /\ \E i \in DOMAIN posts[t] : posts[t][i].outcome = "transport_error"

\* C7: every webhook POST leaves no exception and returns true exactly on a
\* 2xx answer; whatever it answered, the task ends in Completed with the
\* success result holding the listings the cards were made from.
C7_WebhookFailureNotFatal ==
    \A t \in TaskIds :
        \A i \in DOMAIN posts[t] :
            /\ posts[t][i].raised = ""
            /\ posts[t][i].returned <=> posts[t][i].outcome = "2xx"
            /\ Returned(t) => exc[t] = "" /\ result[t][1].success
            /\ pc[t] = "done" =>
                   /\ task_statuses[t] = COMPLETED
                   /\ GetSuccess(task_results[t])
                   /\ task_results[t].message = MsgSuccess
                   /\ posts[t][i].embeds =
                          format_discord_embeds_for_assignments(
                              Upcoming(task_results[t].assignments))
                          \o format_discord_embeds_for_quizzes(
                              Upcoming(task_results[t].quizzes))

\* a finished task whose POST was answered with a non-2xx status
C7_Witness ==
    \E t \in TaskIds :
        /\ pc[t] = "done"
        /\ Len(posts[t]) = 1
        /\ posts[t][1].outcome = "non2xx"
        /\ ~posts[t][1].returned
        /\ task_statuses[t] = COMPLETED

C9_LoginGatesScraping ==
    \A t \in TaskIds :
        /\ login_success[t] = <<FALSE>> =>
               /\ listingNavs[t] = <<>>
               /\ posts[t] = <<>>
               /\ t \in DOMAIN task_results =>
                      task_results[t] = [InitialResult EXCEPT !.message = MsgLoginFailed]
        /\ listingNavs[t] # <<>> => login_success[t] = <<TRUE>>
        /\ IsPrefix([i \in DOMAIN listingNavs[t] |-> listingNavs[t][i].page],
                    <<"assignments", "quizzes">>)
        /\ posts[t] # <<>> => Len(listingNavs[t]) = 2 /\ Len(posts[t]) = 1

\* a failed login whose result is stored
C9_Witness ==
    \E t \in TaskIds :
        /\ login_success[t] = <<FALSE>>
        /\ lastOutcome[t] = "other_msg"
        /\ t \in DOMAIN task_results
        /\ task_results[t].message = MsgLoginFailed

\* C10: after a submitted login that showed no success marker and no message
\* mentioning "CAPTCHA" (another message, or none), no further iteration of
\* the CAPTCHA loop runs: no solve call is made and the loop does not advance.
C10_RetryOnlyOnCaptchaMessage ==
    [][\A t \in TaskIds :
          lastOutcome[t] \in {"other_msg", "no_msg"} =>
              calls'[t].solve = calls[t].solve /\ attempt'[t] = attempt[t]]_vars

\* the lists in seqs joined in order
RECURSIVE Concat(_)
Concat(seqs) == IF seqs = <<>> THEN <<>> ELSE Head(seqs) \o Concat(Tail(seqs))

\* what the calls of poller p on task t have returned, in call order, followed
\* by what its running call holds
ReturnedTo(p, t) ==
    Concat([k \in 1..Len(drains[p]) |->
               IF drains[p][k].task_id = t THEN drains[p][k].returned ELSE <<>>])
    \o (IF poll[p].pc # "idle" /\ poll[p].task_id = t THEN poll[p].logs ELSE <<>>)

\* the entries of task t that poller p took off the queue, in the order taken
TakenBy(p, t) ==
    LET mine(d) == d.by = p /\ d.task_id = t
        taken == SelectSeq(drained, mine)
    IN [i \in 1..Len(taken) |-> taken[i].entry]

\* C11: whatever the interleaving of puts and of the drains of two pollers,
\* an entry put on a task's log queue is held or returned by at most one
\* get_task_logs call, is no longer on the queue once a call holds it, and a
\* call inside its loop can always take its next step (it never waits).
C11_DrainedAtMostOnce ==
    /\ \A t \in TaskIds : \A p, o \in Pollers :
          \A i \in DOMAIN ReturnedTo(p, t), j \in DOMAIN ReturnedTo(o, t) :
              ReturnedTo(p, t)[i] = ReturnedTo(o, t)[j] => (p = o /\ i = j)
    /\ \A t \in DOMAIN task_queues : \A p \in Pollers :
          \A i \in DOMAIN ReturnedTo(p, t), j \in DOMAIN task_queues[t] :
              ReturnedTo(p, t)[i] # task_queues[t][j]
    /\ \A p \in Pollers :
          /\ poll[p].pc = "empty" => ENABLED LogsEmpty(p)
          /\ poll[p].pc = "get" => ENABLED LogsGetNowait(p)

\* two drains of one task ran together: one is about to call get_nowait on a
\* queue the other has just emptied
C11_Witness ==
    \E p, o \in Pollers :
        /\ p # o
        /\ poll[p].pc = "get"
        /\ task_queues[poll[p].task_id] = <<>>
        /\ poll[o].pc # "idle"
        /\ poll[o].task_id = poll[p].task_id
        /\ poll[o].logs # <<>>

\* C12: of two get_task_logs calls a poller makes one after the other on the
\* same task, with no put on the task's queue and no other drain of it from
\* the start of the first to the return of the second, the first returns all
\* the entries that were buffered and the second returns the empty list.
C12_SecondDrainEmpty ==
    \A p \in Pollers : \A k \in 1..(Len(drains[p]) - 1) :
        LET first == drains[p][k]
            second == drains[p][k + 1]
        IN (/\ first.task_id = second.task_id
            /\ first.done /\ second.done
            /\ first.quiet /\ second.quiet)
           => (first.returned = first.start /\ second.returned = <<>>)

\* two undisturbed calls in a row, the first of which found entries buffered
C12_Witness ==
    \E p \in Pollers :
        /\ Len(drains[p]) = 2
        /\ drains[p][1].task_id = drains[p][2].task_id
        /\ drains[p][1].done /\ drains[p][2].done
        /\ drains[p][1].quiet /\ drains[p][2].quiet
        /\ Len(drains[p][1].start) = 2

\* C13: the entries leave a task's queue in the order they were put on it, and
\* what a poller's calls return, joined in call order, is what that poller took
\* off the queue in the order it took it: no entry comes before one put earlier.
C13_DrainOrder ==
    \A t \in TaskIds :
        /\ LET ofTask(d) == d.task_id = t
               taken == SelectSeq(drained, ofTask)
           IN \A i \in DOMAIN taken : taken[i].entry.timestamp = i
        /\ \A p \in Pollers :
              /\ ReturnedTo(p, t) = TakenBy(p, t)
              /\ \A i, j \in DOMAIN ReturnedTo(p, t) :
                     i < j => ReturnedTo(p, t)[i].timestamp < ReturnedTo(p, t)[j].timestamp

\* one call returned two entries, or two calls of a poller returned one each
C13_Witness ==
    \E p \in Pollers, t \in TaskIds :
        /\ poll[p].pc = "idle"
        /\ Len(ReturnedTo(p, t)) = 2
        /\ Len(drains[p]) = 2
        /\ drains[p][1].returned # <<>>
        /\ drains[p][2].returned # <<>>

\* C14: run_scraper_task writes a task's result exactly once: at most one
\* write has happened at any time, the stored value is the one written, and a
\* run that has ended has written it; on the normal path, in the exception
\* handler and when the log queue is missing.
C14_ResultStoredOnce ==
    \A t \in TaskIds :
        /\ Len(resultHist[t]) <= 1
        /\ t \in DOMAIN task_results <=> resultHist[t] # <<>>
        /\ t \in DOMAIN task_results => task_results[t] = resultHist[t][1]
        /\ pc[t] = "done" => Len(resultHist[t]) = 1

\* one run ended in the exception handler and another found no log queue
C14_Witness ==
    \E t, u \in TaskIds :
        /\ pc[t] = "done" /\ pc[u] = "done"
        /\ exc[t] # ""
        /\ task_results[t].message[1] = "An error occurred: "
        /\ u \notin DOMAIN task_queues
        /\ task_results[u].message = <<"Log queue not found", "">>

\* C15: with several scrape requests in flight, each request got an
\* identifier of its own, every identifier create_scraper_task returned has
\* been handed to run_scraper_task exactly once, and the status, the result
\* and the log queue of an identifier carry the writes of one run only.
C15_DispatchedOnce ==
    /\ requests = Cardinality(DOMAIN task_statuses)
    /\ \A t \in TaskIds :
          /\ dispatched[t] = (IF t \in DOMAIN task_statuses THEN 1 ELSE 0)
          /\ Len(SelectSeq(statusHist[t], LAMBDA x : x = PENDING)) <= 1
          /\ Len(SelectSeq(statusHist[t], LAMBDA x : x = RUNNING)) <= 1
          /\ Len(SelectSeq(statusHist[t], LAMBDA x : x \in {COMPLETED, ERROR})) <= 1
          /\ Len(resultHist[t]) <= 1
          /\ logPuts[t] <= 1

\* two requests were served and both runs are under way at the same time
C15_Witness ==
    /\ requests = 2
    /\ \A t \in TaskIds : pc[t] \notin {"idle", "queued", "done"}

\* C16: when the runs are scheduled fairly and every call returns, a task that
\* was dispatched eventually has the status Completed or Error.
C16_RunsTerminate ==
    \A t \in TaskIds : (dispatched[t] = 1) ~> Terminal(t)

\* a run that went round the CAPTCHA loop as often as the loop allows and
\* then reached its final status
C16_Witness ==
    \E t \in TaskIds :
        /\ dispatched[t] = 1
        /\ attempt[t] = CAPTCHA_SOLVE_RETRIES
        /\ calls[t].solve = CAPTCHA_SOLVE_RETRIES
        /\ pc[t] = "done"
        /\ Terminal(t)

\* the identifiers of the cards of one kind in a POST
CardIds(post, kind) ==
    { post.embeds[i].id : i \in { j \in DOMAIN post.embeds : post.embeds[j].kind = kind } }

\* the identifiers of the records of a list whose days_remaining is known and
\* at most n
IdsWithin(recs, n) ==
    { recs[i].id : i \in { j \in DOMAIN recs :
                             /\ recs[j].days_remaining # <<>>
                             /\ recs[j].days_remaining[1] <= n } }

\* C17: a record is in the notification exactly when its days_remaining is
\* known and at most DEADLINE_THRESHOLD_DAYS: with the threshold 3 a record
\* with 3 days is in, one with 4 days or without a known deadline is out, for
\* assignments and quizzes alike.
C17_QualifiesRule ==
    /\ DEADLINE_THRESHOLD_DAYS = 3
    /\ \A t \in TaskIds : \A k \in DOMAIN posts[t] :
          /\ CardIds(posts[t][k], "assignment")
                 = IdsWithin(result[t][1].assignments, DEADLINE_THRESHOLD_DAYS)
          /\ CardIds(posts[t][k], "quiz")
                 = IdsWithin(result[t][1].quizzes, DEADLINE_THRESHOLD_DAYS)
          /\ \A kind \in {"assignment", "quiz"} :
                LET recs == IF kind = "assignment" THEN result[t][1].assignments
                            ELSE result[t][1].quizzes
                IN \A i \in DOMAIN recs :
                      /\ recs[i].days_remaining = <<3>> => recs[i].id \in CardIds(posts[t][k], kind)
                      /\ recs[i].days_remaining = <<4>> => recs[i].id \notin CardIds(posts[t][k], kind)
                      /\ recs[i].days_remaining = <<>> => recs[i].id \notin CardIds(posts[t][k], kind)

\* a POST that carries an assignment due in 3 days and leaves out a quiz due
\* in 4 days
C17_Witness ==
    \E t \in TaskIds :
        /\ Len(posts[t]) = 1
        /\ \E i \in DOMAIN result[t][1].assignments :
              /\ result[t][1].assignments[i].days_remaining = <<3>>
              /\ result[t][1].assignments[i].id \in CardIds(posts[t][1], "assignment")
        /\ \E i \in DOMAIN result[t][1].quizzes :
              /\ result[t][1].quizzes[i].days_remaining = <<4>>
              /\ result[t][1].quizzes[i].id \notin CardIds(posts[t][1], "quiz")

\* some record of the result of task t has a known days_remaining of at most
\* the threshold
SomeWithin(t) ==
    /\ result[t] # <<>>
    /\ IdsWithin(result[t][1].assignments \o result[t][1].quizzes,
                 DEADLINE_THRESHOLD_DAYS) # {}

\* C18: a task without a webhook, and a task none of whose assignments and
\* quizzes qualifies, makes no webhook POST.
C18_NoPostWithoutCause ==
    \A t \in TaskIds :
        (discord_webhook[t] = <<>> \/ ~SomeWithin(t)) => posts[t] = <<>>

\* a finished run with a webhook whose scraped records are all too far away
C18_Witness ==
    \E t \in TaskIds :
        /\ pc[t] = "done"
        /\ discord_webhook[t] # <<>>
        /\ result[t][1].assignments # <<>>
        /\ result[t][1].quizzes # <<>>
        /\ ~SomeWithin(t)
        /\ posts[t] = <<>>

\* the records of a list with a known days_remaining of at most the threshold,
\* in the order of the list, as <<kind, id>>
CardsExpected(kind, recs) ==
    LET within(r) == r.days_remaining # <<>> /\ r.days_remaining[1] <= DEADLINE_THRESHOLD_DAYS
        kept == SelectSeq(recs, within)
    IN [i \in 1..Len(kept) |-> <<kind, kept[i].id>>]

\* C19: a task with a webhook and at least one qualifying record has, once
\* past the notification, made exactly one POST; its cards are those of the
\* qualifying assignments in scrape order, then those of the qualifying
\* quizzes in scrape order, and no others.
C19_OnePostInOrder ==
    \A t \in TaskIds :
        (/\ pc[t] \in {"finally", "store_result", "set_status", "put_log", "done"}
         /\ discord_webhook[t] # <<>>
         /\ SomeWithin(t))
        => /\ Len(posts[t]) = 1
           /\ [i \in DOMAIN posts[t][1].embeds |->
                  <<posts[t][1].embeds[i].kind, posts[t][1].embeds[i].id>>]
              = CardsExpected("assignment", result[t][1].assignments)
                \o CardsExpected("quiz", result[t][1].quizzes)

\* a finished run whose one POST carries the card of the qualifying
\* assignment and, after it, the card of the qualifying quiz
C19_Witness ==
    \E t \in TaskIds :
        /\ pc[t] = "done"
        /\ Len(posts[t]) = 1
        /\ Len(posts[t][1].embeds) = 2
        /\ posts[t][1].embeds[1].kind = "assignment"
        /\ posts[t][1].embeds[2].kind = "quiz"
        /\ Len(result[t][1].assignments) + Len(result[t][1].quizzes) = 2

\* C20: every card is green when the status of its record is the done marker
\* of its category in any letter case ("submitted" for an assignment,
\* "completed" for a quiz), whatever days_remaining is; otherwise it is red
\* when days_remaining is at most 1 and yellow when it is more than 1.
C20_CardColour ==
    \A t \in TaskIds : \A k \in DOMAIN posts[t] : \A i \in DOMAIN posts[t][k].embeds :
        LET card == posts[t][k].embeds[i]
            isDone == IF card.kind = "assignment"
                      THEN card.status \in {"submitted", "Submitted", "SUBMITTED"}
                      ELSE card.status \in {"completed", "Completed", "COMPLETED"}
        IN card.color = (IF isDone THEN 65280
                         ELSE IF card.days_remaining <= 1 THEN 16711680
                         ELSE 16776960)

\* one POST with a green card of a submitted assignment due in 2 days and a
\* red card of a quiz due in 1 day whose status is "Submitted"
C20_Witness ==
    \E t \in TaskIds :
        /\ Len(posts[t]) = 1
        /\ Len(posts[t][1].embeds) = 2
        /\ posts[t][1].embeds[1].kind = "assignment"
        /\ posts[t][1].embeds[1].status = "Submitted"
        /\ posts[t][1].embeds[1].days_remaining = 2
        /\ posts[t][1].embeds[1].color = GREEN
        /\ posts[t][1].embeds[2].kind = "quiz"
        /\ posts[t][1].embeds[2].status = "Submitted"
        /\ posts[t][1].embeds[2].days_remaining = 1
        /\ posts[t][1].embeds[2].color = RED

\* C21: for the rows a listing shows after its header, the scraped list holds,
\* in row order, one record for each row that has six cells and does not raise,
\* and no other; the record of a row whose deadline does not parse has
\* days_remaining null; a short row and a row that raises drop no later row.
C21_OneRecordPerGoodRow ==
    (scraped # <<>> /\ listing[1].page.load = "table")
    => LET rows == listing[1].page.rows
           out == scraped[1]
           good == { i \in DOMAIN rows : rows[i].cells >= 6 /\ ~rows[i].fault }
       IN /\ { out[k].id : k \in DOMAIN out } = good
          /\ Len(out) = Cardinality(good)
          /\ \A j, k \in DOMAIN out : j < k => out[j].id < out[k].id
          /\ \A k \in DOMAIN out :
                out[k].days_remaining = <<>> <=> rows[out[k].id].deadline = <<>>

\* a listing of a short row, a row that raises and a row whose deadline does
\* not parse: the third row alone is scraped, with days_remaining null
C21_Witness ==
    /\ scraped # <<>>
    /\ listing[1].page.load = "table"
    /\ Len(listing[1].page.rows) = 3
    /\ listing[1].page.rows[1].cells < 6
    /\ listing[1].page.rows[2].fault
    /\ Len(scraped[1]) = 1
    /\ scraped[1][1].id = 3
    /\ scraped[1][1].days_remaining = <<>>

\* C22: a create_scraper_task call returns an identifier that had no status, no
\* log queue and no result before; after it that identifier has the status
\* Pending, an empty log queue and no result, and every other identifier has
\* the status, the result and the log queue it had.
C22_CreateFrame ==
    [][requests' = requests + 1 =>
         \E t \in TaskIds :
            /\ t \notin DOMAIN task_statuses
            /\ t \notin DOMAIN task_queues
            /\ t \notin DOMAIN task_results
            /\ t \in DOMAIN task_statuses' /\ task_statuses'[t] = PENDING
            /\ t \in DOMAIN task_queues' /\ task_queues'[t] = <<>>
            /\ t \notin DOMAIN task_results'
            /\ \A u \in TaskIds \ {t} :
                  /\ u \in DOMAIN task_statuses' <=> u \in DOMAIN task_statuses
                  /\ u \in DOMAIN task_statuses => task_statuses'[u] = task_statuses[u]
                  /\ u \in DOMAIN task_queues' <=> u \in DOMAIN task_queues
                  /\ u \in DOMAIN task_queues => task_queues'[u] = task_queues[u]
                  /\ u \in DOMAIN task_results' <=> u \in DOMAIN task_results
                  /\ u \in DOMAIN task_results => task_results'[u] = task_results[u]
    ]_vars

\* a task was created while another had already stored its result and put its
\* log entry
C22_Witness ==
    \E t, u \in TaskIds :
        /\ t # u
        /\ requests = 2
        /\ statusHist[t] = <<PENDING, RUNNING, ERROR>>
        /\ t \in DOMAIN task_results
        /\ task_queues[t] # <<>>
        /\ task_statuses[u] = PENDING
        /\ task_queues[u] = <<>>
        /\ u \notin DOMAIN task_results

\* C23: an identifier the registry never created stays unknown to it: a status
\* write made for it leaves no status and no result behind, and get_task_status
\* returns None for it.
C23_UnknownStaysUnknown ==
    \A t \in TaskIds :
        t \notin DOMAIN task_queues
        => (get_task_status(t) = <<>> /\ get_task_result(t) = <<>>)

\* C24: a get_task_logs call made with clear = False takes nothing off the
\* queue: every entry it has collected is still on the task's log queue.
C24_ClearFalseKeepsEntries ==
    \A p \in Pollers :
        (poll[p].pc # "idle" /\ ~poll[p].clear)
        => \A i \in DOMAIN poll[p].logs :
              \E j \in DOMAIN task_queues[poll[p].task_id] :
                  task_queues[poll[p].task_id][j] = poll[p].logs[i]

\* the texts of a message of the result or of a log entry
MessageTexts(m) ==
    IF m[1] = "Scraping task failed: " THEN {m[1], m[2][1], m[2][2]} ELSE {m[1], m[2]}

\* every text a poller of task t can read: the message of the stored result
\* and the messages of the entries on the log queue
ReadableTexts(t) ==
    (IF t \in DOMAIN task_results THEN MessageTexts(task_results[t].message) ELSE {})
    \cup (IF t \in DOMAIN task_queues
          THEN UNION { MessageTexts(task_queues[t][i].message) : i \in DOMAIN task_queues[t] }
          ELSE {})

\* the message of the result as the answers the run received determine it
MessageFromResponses(t) ==
    IF exc[t] # "" THEN <<"An error occurred: ", exc[t]>>
    ELSE IF openOutcome[t] \in InitCauses THEN <<"Scraper failed with error: ", openOutcome[t]>>
    ELSE IF login_success[t] = <<FALSE>> THEN <<"Failed to login to DULMS", "">>
    ELSE <<"Scraping completed successfully", "">>

\* the log entries as the answers the run received determine them
EntriesFromResponses(t) ==
    IF pc[t] # "done" THEN <<>>
    ELSE IF exc[t] # ""
    THEN <<[level |-> "ERROR",
            message |-> <<"Scraping task failed with exception: ", exc[t]>>]>>
    ELSE IF MessageFromResponses(t)[1] = "Scraping completed successfully"
    THEN <<[level |-> "INFO", message |-> <<"Scraping task completed successfully", "">>]>>
    ELSE <<[level |-> "ERROR",
            message |-> <<"Scraping task failed: ", MessageFromResponses(t)>>]>>

\* C25: the message of a task's result and the entries on its log queue are
\* determined by what the browser, the solving service and the webhook
\* answered, whatever the password and the API key of the request; neither
\* secret nor the solving service's response is among the texts a poller can
\* read.
C25_SecretsNotReadable ==
    \A t \in TaskIds :
        /\ ReadableTexts(t) \cap {credentials[t].password, credentials[t].captcha_api_key,
                                  SolverResponse} = {}
        /\ t \in DOMAIN task_results => task_results[t].message = MessageFromResponses(t)
        /\ t \in DOMAIN task_queues => task_queues[t] = EntriesFromResponses(t)

\* a run, made with other secrets than the default ones, that typed the
\* password, sent the key to the solving service, failed to log in and
\* published its message and its log entry
C25_Witness ==
    \E t \in TaskIds :
        /\ credentials[t] = [password |-> "pw2", captcha_api_key |-> "key2"]
        /\ given[t].browser = {"pw2"}
        /\ given[t].solver = {"key2"}
        /\ SolverResponse \in given[t].log
        /\ pc[t] = "done"
        /\ task_results[t].message = <<"Failed to login to DULMS", "">>
        /\ Len(task_queues[t]) = 1

\* C27: an iteration of the login loop in which the image is missing or the
\* solving service gives no solution uses up one attempt and stays in the
\* loop without clicking the login button; once CAPTCHA_SOLVE_RETRIES
\* attempts are used up the loop ends, login_to_dulms returns False and
\* nothing more is submitted.
C27_FailedSolveConsumesAttempt ==
    [][\A t \in TaskIds :
          (pc[t] = "captcha" /\ <<pc[t], attempt[t], calls[t], login_success[t]>>'
                                    # <<pc[t], attempt[t], calls[t], login_success[t]>>)
          => /\ (attempt[t] < CAPTCHA_SOLVE_RETRIES
                    /\ lastOutcome'[t] \in {"no_image", "solve_failed"})
                => /\ attempt'[t] = attempt[t] + 1
                   /\ calls'[t].submit = calls[t].submit
                   /\ pc'[t] = "captcha"
             /\ attempt[t] >= CAPTCHA_SOLVE_RETRIES
                => /\ login_success'[t] = <<FALSE>>
                   /\ pc'[t] = "login_ret"
                   /\ calls'[t] = calls[t]]_vars

\* login_to_dulms returned False after CAPTCHA_SOLVE_RETRIES iterations, one
\* without an image and two without a solution, the form never submitted
C27_Witness ==
    \E t \in TaskIds :
        /\ pc[t] = "login_ret"
        /\ attempt[t] = CAPTCHA_SOLVE_RETRIES
        /\ calls[t].solve = CAPTCHA_SOLVE_RETRIES - 1
        /\ calls[t].submit = 0
        /\ lastOutcome[t] = "solve_failed"
        /\ login_success[t] = <<FALSE>>

\* C30: the record of a row whose deadline parses to the date d calendar days
\* after the date of the scrape has days_remaining = d, at whatever time of
\* day the listing is scraped; a deadline dated today gives 0.
C30_DaysRemainingIsDateDifference ==
    (scraped # <<>> /\ listing[1].page.load = "table")
    => LET rows == listing[1].page.rows
           out == scraped[1]
       IN \A k \in DOMAIN out :
             rows[out[k].id].deadline # <<>>
             => out[k].days_remaining = rows[out[k].id].deadline

\* C26: a response of get_task_info that reports the status Error carries
\* the error message of the task, however the status read and the result
\* read of the request fall between the writes of run_scraper_task.
C26_ErrorCarriesMessage ==
    (info.pc = "done" /\ info.response[1].code = 200 /\ info.response[1].status = ERROR)
    => info.response[1].error # <<>>

\* the positions of the events of one kind among the events yielded
EventsOf(kind) == { i \in DOMAIN stream.events : stream.events[i].event = kind }

\* C28: a client that stays connected until event_generator ends has been
\* sent, before the status event, a log event for every entry put on the log
\* queue of the task.
C28_EveryEntryBeforeStatus ==
    (stream.pc = "closed" /\ stream.connected)
    => /\ Cardinality(EventsOf("log")) = logPuts[stream.task_id]
       /\ \A i \in EventsOf("log"), j \in EventsOf("status") : i < j

\* the events yielded so far are in the order event_generator allows: at most
\* one status event, carrying the status of the task, nothing after it but
\* the result event of a completed task
EventsInOrder ==
    /\ Cardinality(EventsOf("status")) <= 1
    /\ \A i \in EventsOf("status") :
          /\ stream.events[i].data = task_statuses[stream.task_id]
          /\ \A j \in DOMAIN stream.events :
                j > i => /\ j = i + 1
                         /\ stream.events[j].event = "result"
                         /\ stream.events[i].data = COMPLETED
    /\ \A j \in EventsOf("result") : j - 1 \in EventsOf("status")

\* the events of a generator that ended with the client connected: one
\* status event, and a result event exactly for the status Completed
EventsComplete ==
    /\ Cardinality(EventsOf("status")) = 1
    /\ \A i \in EventsOf("status") :
          stream.events[i].data = COMPLETED <=> EventsOf("result") = {i + 1}

\* C29: once the task of a GET /logs request has a terminal status the
\* generator ends; if the client stayed connected it has yielded exactly one
\* status event, carrying that status, followed by a result event if and
\* only if the status is Completed, with no log event after the status
\* event; after the end it yields nothing and reads nothing.
C29_OneStatusEventThenStop ==
    /\ [](EventsInOrder /\ ((stream.pc = "closed" /\ stream.connected) => EventsComplete))
    /\ [][stream.pc = "closed" => stream' = stream]_vars
    /\ \A t \in TaskIds :
          (stream.pc \notin {"idle", "not_found"} /\ stream.task_id = t /\ Terminal(t))
          ~> (stream.pc = "closed")

\* the stream of a completed task ended with the client connected: a log
\* event, the status event and the result event
C29_Witness ==
    /\ stream.pc = "closed"
    /\ stream.connected
    /\ Len(stream.events) = 3
    /\ stream.events[1].event = "log"
    /\ stream.events[2].event = "status"
    /\ stream.events[2].data = COMPLETED
    /\ stream.events[3].event = "result"

====
